---- MODULE Spec2Model ----
(***************************************************************************)
(* NotifyFlow: the notification scheduling and delivery engine.            *)
(*                                                                         *)
(* The model follows backend/utils/notificationScheduler.js, the response  *)
(* routes of backend/routes/notifications.js, the socket handlers of       *)
(* backend/server.js, the routine routes of backend/routes/routines.js,    *)
(* the Mongoose schemas of backend/models and the client response handler  *)
(* of frontend/src/utils/notificationResponseHandler.js.                   *)
(*                                                                         *)
(* Time is counted in whole minutes since a Sunday 00:00.  A timestamp     *)
(* field that is not set holds Null.                                       *)
(***************************************************************************)
EXTENDS Integers, Sequences, FiniteSets, TLC

VARIABLES
    now,          \* the wall clock, in minutes
    routines,     \* the Routine collection
    notifs,       \* the Notification collection (committed state)
    nextId,       \* the next fresh notification id
    metrics,      \* the events UserMetric.updateForResponse has applied
    pushes,       \* the 'notification' events emitted, in order
    reqs,         \* the REST respond calls (POST /:id/response)
    socks,        \* the socket 'notification-response' handlers
    scans,        \* the due-routine scans (cron tick, manual trigger)
    snz,          \* the snooze re-delivery scan
    client,       \* the client response handler
    lastAdaptive, \* the last updateAdaptiveTiming call and what it found
    server        \* the server process: its scheduler and its last status reply

vars == <<now, routines, notifs, nextId, metrics, pushes, reqs, socks, scans,
          snz, client, lastAdaptive, server>>

----------------------------------------------------------------------------
(* Bounds of the model *)

MaxNotifs == 2      \* notification ids available
MaxReqs == 2        \* REST respond calls
MaxSocks == 1       \* socket respond handlers
MaxTicks == 3       \* minutes the clock advances
MaxWait == 6        \* minutes the clock advances while a snooze runs out
MaxEntries == 2     \* schedule entries of a routine

Null == 0 - 1
Max(a, b) == IF a >= b THEN a ELSE b
Min(a, b) == IF a <= b THEN a ELSE b

Users == {"A", "B"}
RoutineIds == {"R"}
NotifIds == 1..MaxNotifs
ReqIds == 1..MaxReqs
SockIds == 1..MaxSocks

\* Monday 09:00
StartTime == 1 * 1440 + 9 * 60

----------------------------------------------------------------------------
(* The server process and its scheduler *)

\* constructor lines 7-11: a scheduler object; `tasks` counts the cron tasks
\* its start() has registered
NewScheduler == [isRunning |-> FALSE, tasks |-> 0]

\* start() lines 13-59: nothing when already running, else the three cron
\* tasks are registered
StartScheduler(sch) ==
    IF sch.isRunning THEN sch
    ELSE [isRunning |-> TRUE, tasks |-> sch.tasks + 3]

\* stop() lines 414-417: the flag is cleared; no cron task is stopped
StopScheduler(sch) == [sch EXCEPT !.isRunning = FALSE]

\* getStatus() lines 419-425
GetStatus(sch) == [isRunning |-> sch.isRunning, activeCronJobs |-> 3]

\* no status request answered yet
NoReply == [route |-> "none", isRunning |-> FALSE, activeCronJobs |-> 0]

\* the process between its start and mongoose's 'open' event
ConnectingServer ==
    [phase |-> "connecting", sched |-> NewScheduler, reply |-> NoReply]

\* the process after 'open': its scheduler is started and it listens
RunningServer ==
    [phase |-> "listening", sched |-> StartScheduler(NewScheduler),
     reply |-> NoReply]

----------------------------------------------------------------------------
(* Schemas *)

\* notificationSchema.status.enum: what a validated save accepts
StatusEnum == {"pending", "delivered", "completed", "dismissed", "snoozed"}

\* the JavaScript value undefined: a field the caller has not sent, and in
\* the store a path that is not set
Undefined == "undefined"

\* the three caller-facing actions of the REST response route
validActions == {"completed", "snoozed", "dismissed"}

\* the title a routine is created with, and the one an edit gives it; the
\* title stands for the four fields copied to a notification and pushed with
\* it: title, description (message), sound and volume
FirstTitle == "Stretch"
Titles == {FirstTitle, "Walk"}

\* a document of the Notification collection that does not exist
NoNotif ==
    [status |-> "none", user |-> "A", routine |-> "R", scheduledFor |-> Null,
     deliveredAt |-> Null, completedAt |-> Null, snoozedUntil |-> Null,
     deliveryAttempts |-> 0, respAction |-> "none", respTime |-> 0,
     adaptiveAdjustment |-> 0, processing |-> FALSE, title |-> "none"]

\* new Notification({...}) of createAndSendNotification, with the schema defaults
NewNotification(user, routine, title, scheduledFor, adaptiveAdjustment) ==
    [status |-> "pending", user |-> user, routine |-> routine,
     scheduledFor |-> scheduledFor,
     deliveredAt |-> Null, completedAt |-> Null, snoozedUntil |-> Null,
     deliveryAttempts |-> 0, respAction |-> "none", respTime |-> 0,
     adaptiveAdjustment |-> adaptiveAdjustment, processing |-> FALSE,
     title |-> title]

\* a schedule entry {time: "09:00", days: [1]}
Entry(time, days) == [time |-> time, days |-> days]

\* a routine as routineSchema stores it
Routine(user, active, enabled, adjustment, schedule) ==
    [exists |-> TRUE, user |-> user, isActive |-> active, enabled |-> enabled,
     adjustment |-> adjustment, lastAdjustment |-> Null, schedule |-> schedule,
     title |-> FirstTitle]

----------------------------------------------------------------------------
(* Adaptive Timing Updater *)

\* the switch with the Math.min of the 'dismissed' case left out
NewAdjustment_NoCeiling(adjustment, action, responseTime) ==
    CASE action = "completed" /\ responseTime < 30 -> Max(0 - 10, adjustment - 1)
      [] action = "completed" /\ responseTime > 120 -> Min(10, adjustment + 2)
      [] action = "dismissed" -> adjustment + 5
      [] action = "snoozed" -> Min(10, adjustment + 3)
      [] OTHER -> adjustment

\* the switch of updateAdaptiveTiming: the adjustment it stores
NewAdjustment(adjustment, action, responseTime) ==
    CASE action = "completed" /\ responseTime < 30 -> Max(0 - 10, adjustment - 1)
      [] action = "completed" /\ responseTime > 120 -> Min(10, adjustment + 2)
      [] action = "dismissed" -> Min(15, adjustment + 5)
      [] action = "snoozed" -> Min(10, adjustment + 3)
      [] OTHER -> adjustment

\* an updater that does not look at adaptiveTiming.enabled
UpdateAdaptiveTiming_IgnoresEnabled(rs, rid, action, responseTime, t) ==
    IF ~rs[rid].exists
    THEN rs
    ELSE [rs EXCEPT ![rid].adjustment = NewAdjustment(@, action, responseTime),
                    ![rid].lastAdjustment = t]

\* updateAdaptiveTiming(routineId, userResponse) on the Routine collection rs at time t
UpdateAdaptiveTiming(rs, rid, action, responseTime, t) ==
    IF ~rs[rid].exists \/ ~rs[rid].enabled
    THEN rs
    ELSE [rs EXCEPT ![rid].adjustment = NewAdjustment(@, action, responseTime),
                    ![rid].lastAdjustment = t]

\* what lastAdaptive records of a call
AdaptiveCall(rs, rid, action, responseTime) ==
    [routine |-> rid, action |-> action, responseTime |-> responseTime,
     before |-> rs[rid].adjustment,
     applied |-> rs[rid].exists /\ rs[rid].enabled]

NoAdaptiveCall ==
    [routine |-> "R", action |-> "none", responseTime |-> 0, before |-> 0,
     applied |-> FALSE]

----------------------------------------------------------------------------
(* The Notification store as Mongoose drives it *)

\* the paths notificationSchema declares: `processing` is not one of them, so
\* document.save() never writes it
SchemaPaths ==
    {"status", "user", "routine", "scheduledFor", "deliveredAt", "completedAt",
     "snoozedUntil", "deliveryAttempts", "respAction", "respTime",
     "adaptiveAdjustment", "title"}

\* document.save(): $set of the modified paths the schema declares
Save(stored, doc, modified) ==
    [f \in DOMAIN stored |->
        IF f \in (modified \cap SchemaPaths) THEN doc[f] ELSE stored[f]]

\* the validators document.save() runs on the modified paths; an enum
\* validator is not run on a path set to undefined
Valid(doc, modified) ==
    /\ ("status" \in modified) => doc.status \in StatusEnum \cup {Undefined}
    /\ ("respAction" \in modified) =>
          doc.respAction \in {"completed", "snoozed", "dismissed", "ignored",
                              Undefined}

\* one lock for the whole collection: any open transaction blocks every write
Locked_Global(n) ==
    \E r \in ReqIds : reqs[r].pc \in {"written", "effects"}

\* a transaction of the REST response route holds an uncommitted write on n
Locked(n) ==
    \E r \in ReqIds : reqs[r].nid = n /\ reqs[r].pc \in {"written", "effects"}

\* a committed write on n invalidates the snapshot of every open transaction
\* that has read n and not yet written it
Invalidate(rq, n, self) ==
    [r \in ReqIds |->
        IF r # self /\ rq[r].nid = n /\ rq[r].pc = "found"
        THEN [rq[r] EXCEPT !.stale = TRUE]
        ELSE rq[r]]

----------------------------------------------------------------------------
(* Response Processor: POST /:id/response *)

IdleReq ==
    [pc |-> "idle", nid |-> 1, user |-> "A", action |-> "none", rt |-> 0,
     sm |-> 0, doc |-> NoNotif, popEnabled |-> FALSE, stale |-> FALSE,
     seen |-> "none", overlap |-> FALSE, fault |-> FALSE, result |-> 0]

\* const { snoozeMinutes = 5 } = req.body: an absent value (<<>>) defaults to 5
BodySnoozeMinutes(sm) == IF sm = <<>> THEN 5 ELSE sm[1]

\* lines 44-51: the document the locked find returns, or none
FindForResponse(store, nid, user) ==
    IF /\ store[nid].status # "none"
       /\ store[nid].user = user
       /\ store[nid].processing = FALSE
    THEN store[nid]
    ELSE NoNotif

\* lines 53-75: the status returned when the locked find returns nothing
NotFoundResult(store, nid, user) ==
    IF /\ store[nid].status # "none"
       /\ store[nid].user = user
       /\ store[nid].processing
    THEN 409
    ELSE 404

\* lines 89-113: the document in memory when the second save is issued
RespondMutation(doc, action, responseTime, snoozeMinutes, t) ==
    [doc EXCEPT
        !.status = action,
        !.respAction = action,
        !.respTime = responseTime,
        !.completedAt = IF action = "completed" THEN t ELSE @,
        !.snoozedUntil = IF action = "snoozed" THEN t + snoozeMinutes ELSE @,
        !.processing = FALSE]

\* the paths RespondMutation modifies
ResponsePaths(action) ==
    {"status", "respAction", "respTime", "processing"}
        \cup (IF action = "completed" THEN {"completedAt"} ELSE {})
        \cup (IF action = "snoozed" THEN {"snoozedUntil"} ELSE {})

\* the commit of a route that stores the flag and never releases it
CommitResponse_KeepsFlag(stored, doc, action) ==
    [Save(stored, doc, ResponsePaths(action)) EXCEPT !.processing = TRUE]

\* what commitTransaction makes of the stored document
CommitResponse(stored, doc, action) ==
    Save(stored, doc, ResponsePaths(action))

\* another response call on n is between its find and its answer
InProgress(n) ==
    \E r \in ReqIds :
        reqs[r].nid = n /\ reqs[r].pc \in {"found", "written", "effects", "catch"}

\* lines 32-87 for the request q: the locked find and the validation; the
\* request notes the status it found and whether it overlaps another call
Arrive(q) ==
    LET found == FindForResponse(notifs, q.nid, q.user)
    IN IF found.status = "none"
       THEN [q EXCEPT !.pc = "done",
                      !.result = NotFoundResult(notifs, q.nid, q.user)]
       ELSE IF q.action \notin validActions
       THEN [q EXCEPT !.pc = "done", !.result = 400]
       ELSE [q EXCEPT !.pc = "found", !.doc = found,
                      !.seen = found.status,
                      !.overlap = InProgress(q.nid),
                      !.popEnabled = /\ routines[found.routine].exists
                                     /\ routines[found.routine].enabled]

\* a caller posts {action, responseTime, snoozeMinutes} to /:id/response and
\* the route runs up to its first save (slots are taken in order)
RestCall(r, user, nid, action, rt, sm) ==
    /\ reqs[r].pc = "idle"
    /\ \A p \in ReqIds : p < r => reqs[p].pc # "idle"
    /\ reqs' = [reqs EXCEPT ![r] =
            Arrive([@ EXCEPT !.nid = nid, !.user = user, !.action = action,
                             !.rt = rt, !.sm = BodySnoozeMinutes(sm)])]
    /\ UNCHANGED <<now, routines, notifs, nextId, metrics, pushes, socks, scans,
                   snz, client, lastAdaptive, server>>

\* the same for a request the client response handler has sent
RestRespond(r) ==
    /\ reqs[r].pc = "sent"
    /\ reqs' = [reqs EXCEPT ![r] = Arrive(@)]
    /\ UNCHANGED <<now, routines, notifs, nextId, metrics, pushes, socks, scans,
                   snz, client, lastAdaptive, server>>

\* lines 89-115: both saves in the session; a write conflict or a store error
\* throws into the catch block
RestSave(r, storeFails) ==
    /\ reqs[r].pc = "found"
    /\ LET q == reqs[r]
           conflict == \/ q.stale
                       \/ Locked(q.nid)
                       \/ notifs[q.nid].status = "none"
       IN reqs' = [reqs EXCEPT ![r] =
            IF conflict \/ storeFails
            THEN [q EXCEPT !.pc = "catch", !.fault = ~conflict]
            ELSE [q EXCEPT !.pc = "written",
                           !.doc = RespondMutation(q.doc, q.action, q.rt, q.sm, now)]]
    /\ UNCHANGED <<now, routines, notifs, nextId, metrics, pushes, socks, scans,
                   snz, client, lastAdaptive, server>>

\* lines 117-139: the metrics update and the adaptive timing update, both
\* outside the session; an error of the metrics update is caught and logged
RestEffects(r, metricsFail) ==
    /\ reqs[r].pc = "written"
    /\ LET q == reqs[r]
       IN /\ metrics' = IF metricsFail THEN metrics
                         ELSE Append(metrics, <<q.user, q.action, q.rt>>)
          /\ IF q.popEnabled
             THEN /\ routines' = UpdateAdaptiveTiming(routines, q.doc.routine,
                                                      q.action, q.rt, now)
                  /\ lastAdaptive' = AdaptiveCall(routines, q.doc.routine,
                                                  q.action, q.rt)
             ELSE UNCHANGED <<routines, lastAdaptive>>
          /\ reqs' = [reqs EXCEPT ![r].pc = "effects"]
    /\ UNCHANGED <<now, notifs, nextId, pushes, socks, scans, snz, client, server>>

\* lines 141-180: commit, the 'notification-updated' emit, then the success
\* response; an emit that throws lands in the catch block after the commit
RestCommit(r, storeFails, syncFails) ==
    /\ reqs[r].pc = "effects"
    /\ LET q == reqs[r]
       IN IF storeFails
          THEN /\ reqs' = [reqs EXCEPT ![r].pc = "catch", ![r].fault = TRUE]
               /\ UNCHANGED notifs
          ELSE /\ notifs' = [notifs EXCEPT ![q.nid] =
                                CommitResponse(@, q.doc, q.action)]
               /\ reqs' = IF syncFails
                           THEN [Invalidate(reqs, q.nid, r) EXCEPT
                                    ![r].pc = "catch", ![r].fault = TRUE]
                           ELSE [Invalidate(reqs, q.nid, r) EXCEPT
                                    ![r].pc = "done", ![r].result = 200]
    /\ UNCHANGED <<now, routines, nextId, metrics, pushes, socks, scans, snz,
                   client, lastAdaptive, server>>

\* lines 182-211: abort, reset the flag with updateOne, answer 500
RestCatch(r) ==
    /\ reqs[r].pc = "catch"
    /\ notifs' = [notifs EXCEPT ![reqs[r].nid].processing = FALSE]
    /\ reqs' = [reqs EXCEPT ![r].pc = "done", ![r].result = 500]
    /\ UNCHANGED <<now, routines, nextId, metrics, pushes, socks, scans, snz,
                   client, lastAdaptive, server>>

----------------------------------------------------------------------------
(* Response Processor: socket 'notification-response' and POST /:id/snooze *)

IdleSock ==
    [pc |-> "idle", nid |-> 1, user |-> "A", action |-> "none", rt |-> 0,
     sm |-> <<>>, doc |-> NoNotif, result |-> "none"]

\* `snoozeMinutes` is truthy: given and not zero
Truthy(sm) == sm # <<>> /\ sm[1] # 0

\* server.js lines 645-665: the document in memory when save is issued
SocketMutation(doc, action, responseTime, sm, t) ==
    IF action = "snoozed" /\ Truthy(sm)
    THEN [doc EXCEPT !.status = "snoozed", !.snoozedUntil = t + sm[1],
                     !.respAction = "snoozed", !.respTime = responseTime]
    ELSE [doc EXCEPT !.status = action, !.respAction = action,
                     !.respTime = responseTime,
                     !.completedAt = IF action = "completed" THEN t ELSE @]

\* the paths SocketMutation modifies
SocketPaths(action, sm) ==
    {"status", "respAction", "respTime"}
        \cup (IF action = "snoozed" /\ Truthy(sm) THEN {"snoozedUntil"} ELSE {})
        \cup (IF action = "completed" THEN {"completedAt"} ELSE {})

\* server.js lines 620-643 for the event k: findById and the owner check
Receive(k) ==
    IF notifs[k.nid].status = "none"
    THEN [k EXCEPT !.pc = "done", !.result = "NotFound"]
    ELSE IF notifs[k.nid].user # k.user
    THEN [k EXCEPT !.pc = "done", !.result = "Unauthorized"]
    ELSE [k EXCEPT !.pc = "found", !.doc = notifs[k.nid]]

\* a connected session of `user` emits 'notification-response' and the handler
\* runs up to its save (slots are taken in order)
SockEmit(s, user, nid, action, rt, sm) ==
    /\ socks[s].pc = "idle"
    /\ \A p \in SockIds : p < s => socks[p].pc # "idle"
    /\ socks' = [socks EXCEPT ![s] =
            Receive([@ EXCEPT !.nid = nid, !.user = user, !.action = action,
                              !.rt = rt, !.sm = sm])]
    /\ UNCHANGED <<now, routines, notifs, nextId, metrics, pushes, reqs, scans,
                   snz, client, lastAdaptive, server>>

\* the same for an event the client response handler has emitted
SockRespond(s) ==
    /\ socks[s].pc = "sent"
    /\ socks' = [socks EXCEPT ![s] = Receive(@)]
    /\ UNCHANGED <<now, routines, notifs, nextId, metrics, pushes, reqs, scans,
                   snz, client, lastAdaptive, server>>

\* server.js lines 645-667: the mutation and the save, outside any transaction
SockSave(s) ==
    /\ socks[s].pc = "found"
    /\ ~Locked(socks[s].nid)
    /\ LET k == socks[s]
           doc == SocketMutation(k.doc, k.action, k.rt, k.sm, now)
           paths == SocketPaths(k.action, k.sm)
       IN IF notifs[k.nid].status = "none" \/ ~Valid(doc, paths)
          THEN /\ socks' = [socks EXCEPT ![s].pc = "done", ![s].result = "Failed"]
               /\ UNCHANGED <<notifs, reqs>>
          ELSE /\ notifs' = [notifs EXCEPT ![k.nid] = Save(@, doc, paths)]
               /\ socks' = [socks EXCEPT ![s].pc = "saved", ![s].doc = doc]
               /\ reqs' = Invalidate(reqs, k.nid, 0)
    /\ UNCHANGED <<now, routines, nextId, metrics, pushes, scans, snz, client,
                   lastAdaptive, server>>

\* server.js lines 669-699: metrics, adaptive timing, the update event;
\* updateForResponse calls action.charAt and throws when action is undefined,
\* or fails in the store, and the handler's catch block emits 'error'
SockEffects(s, metricsFail) ==
    /\ socks[s].pc = "saved"
    /\ LET k == socks[s]
       IN IF k.action = Undefined \/ metricsFail
          THEN /\ socks' = [socks EXCEPT ![s].pc = "done", ![s].result = "Failed"]
               /\ UNCHANGED <<metrics, routines, lastAdaptive>>
          ELSE /\ metrics' = Append(metrics, <<k.user, k.action, k.rt>>)
               /\ routines' = UpdateAdaptiveTiming(routines, k.doc.routine,
                                                   k.action, k.rt, now)
               /\ lastAdaptive' = AdaptiveCall(routines, k.doc.routine, k.action,
                                               k.rt)
               /\ socks' = [socks EXCEPT ![s].pc = "done", ![s].result = "ok"]
    /\ UNCHANGED <<now, notifs, nextId, pushes, reqs, scans, snz, client, server>>

\* notifications.js lines 215-243: the legacy snooze route on a notification
\* the caller owns (any other id is answered 404 and changes nothing)
LegacySnooze(user, nid, sm) ==
    /\ notifs[nid].status # "none"
    /\ notifs[nid].user = user
    /\ ~Locked(nid)
    /\ notifs' = [notifs EXCEPT ![nid] =
            [@ EXCEPT !.status = "snoozed",
                      !.snoozedUntil = now + BodySnoozeMinutes(sm),
                      !.respAction = "snoozed", !.respTime = 0]]
    /\ reqs' = Invalidate(reqs, nid, 0)
    /\ UNCHANGED <<now, routines, nextId, metrics, pushes, socks, scans, snz,
                   client, lastAdaptive, server>>

----------------------------------------------------------------------------
(* Due-Routine Matcher *)

Digits == <<"0", "1", "2", "3", "4", "5", "6", "7", "8", "9">>

\* Number.prototype.toString() of a number below 100
NumToString(n) ==
    IF n < 10 THEN <<Digits[n + 1]>>
    ELSE <<Digits[(n \div 10) + 1], Digits[(n % 10) + 1]>>

\* String.prototype.padStart(2, '0')
PadStart(str) == IF Len(str) < 2 THEN <<"0">> \o str ELSE str

\* Date.getHours(), Date.getMinutes(), Date.getDay()
GetHours(t) == (t \div 60) % 24
GetMinutes(t) == t % 60
GetDay(t) == (t \div 1440) % 7

\* checkScheduledRoutines line 108: currentTime
CurrentTime(t) ==
    PadStart(NumToString(GetHours(t))) \o <<":">> \o PadStart(NumToString(GetMinutes(t)))

\* the first branch of $or: one entry matches both the time and the day
ElemMatch(schedule, time, day) ==
    \E i \in 1..Len(schedule) : schedule[i].time = time /\ day \in schedule[i].days

\* the second branch of $or: 'schedule.time' and 'schedule.days' are matched
\* against the array independently of each other
PathMatch(schedule, time, day) ==
    /\ \E i \in 1..Len(schedule) : schedule[i].time = time
    /\ \E j \in 1..Len(schedule) : day \in schedule[j].days

\* the filter of Routine.find in checkScheduledRoutines
IsDue(routine, t) ==
    /\ routine.exists
    /\ routine.isActive
    /\ \/ ElemMatch(routine.schedule, CurrentTime(t), GetDay(t))
       \/ PathMatch(routine.schedule, CurrentTime(t), GetDay(t))

RoutineOrder == <<"R">>
NotifOrder == [i \in 1..MaxNotifs |-> i]

\* the routines Routine.find returns at time t
DueRoutines(rs, t) == SelectSeq(RoutineOrder, LAMBDA rid : IsDue(rs[rid], t))

----------------------------------------------------------------------------
(* Duplicate Suppressor, Notification Factory, Delivery Dispatcher *)

\* the invocations of checkScheduledRoutines that may be running at once: the
\* one the cron task has started, and one more (started by the route
\* /trigger-scheduler-check, or by the cron task while its last one still runs)
ScanIds == {"cron", "manual"}

\* a routine that does not exist
NoRoutine ==
    [exists |-> FALSE, user |-> "A", isActive |-> FALSE, enabled |-> FALSE,
     adjustment |-> 0, lastAdjustment |-> Null, schedule |-> <<>>,
     title |-> "none"]

IdleScan ==
    [pc |-> "idle", at |-> Null, due |-> <<>>, nid |-> 0,
     snap |-> [rid \in RoutineIds |-> NoRoutine]]

\* createAndSendNotification lines 150-157: the existing notification query
ExistingNotification(store, user, rid, t) ==
    \E n \in NotifIds :
        /\ store[n].status \in {"pending", "delivered", "snoozed"}
        /\ store[n].user = user
        /\ store[n].routine = rid
        /\ store[n].scheduledFor >= t - 5

\* a factory that applies the offset whether adaptive timing is enabled or not
AdaptiveAdjustment_IgnoresEnabled(routine) == routine.adjustment

\* createAndSendNotification lines 164-176: the adjustment applied
AdaptiveAdjustment(routine) ==
    IF routine.enabled /\ routine.adjustment # 0 THEN routine.adjustment ELSE 0

\* sendRealTimeNotification lines 240-243: the document it saves after the push
DeliveredDoc(doc, t) == [doc EXCEPT !.status = "delivered", !.deliveredAt = t]

DeliveredPaths == {"status", "deliveredAt"}

\* sendRealTimeNotification lines 250-253: the document its catch block saves
FailedDoc(doc) ==
    [doc EXCEPT !.status = "failed", !.deliveryAttempts = @ + 1]

FailedPaths == {"status", "deliveryAttempts"}

\* the stored document after the catch block's save, which validates first
MarkFailed(stored, doc) ==
    IF stored.status # "none" /\ Valid(FailedDoc(doc), FailedPaths)
    THEN Save(stored, FailedDoc(doc), FailedPaths)
    ELSE stored

\* the 'notification' event emitted to the room of the routine's user, its
\* payload built from the routine document handed to the dispatcher
PushEvent(nid, rid, rs) ==
    [nid |-> nid, room |-> rs[rid].user, routine |-> rid,
     active |-> routines[rid].exists /\ routines[rid].isActive,
     title |-> rs[rid].title]

\* the scan is done with the routine at the head of its list
NextRoutine(scan) ==
    IF Len(scan.due) > 1
    THEN [scan EXCEPT !.due = Tail(@), !.nid = 0, !.pc = "check"]
    ELSE IdleScan

\* checkScheduledRoutines lines 107-133: the scan reads the clock and the
\* routines that are due at time t
StartScan(rs, t) ==
    IF DueRoutines(rs, t) = <<>>
    THEN IdleScan
    ELSE [pc |-> "check", at |-> t, due |-> DueRoutines(rs, t), nid |-> 0,
          snap |-> rs]

\* POST /trigger-scheduler-check: a scan at any moment (one that finds no due
\* routine does nothing)
TriggerSchedulerCheck ==
    /\ scans["manual"].pc = "idle"
    /\ StartScan(routines, now) # IdleScan
    /\ scans' = [scans EXCEPT !["manual"] = StartScan(routines, now)]
    /\ UNCHANGED <<now, routines, notifs, nextId, metrics, pushes, reqs, socks,
                   snz, client, lastAdaptive, server>>

\* start() lines 21-28: a minute begins and the cron task runs the scan
CronTick ==
    /\ now < StartTime + MaxTicks
    /\ scans["cron"].pc = "idle"
    /\ now' = now + 1
    /\ scans' = [scans EXCEPT !["cron"] = StartScan(routines, now + 1)]
    /\ UNCHANGED <<routines, notifs, nextId, metrics, pushes, reqs, socks, snz,
                   client, lastAdaptive, server>>

\* start() lines 21-28: a minute begins and the cron task calls
\* checkScheduledRoutines, whether or not its last invocation has returned;
\* the new invocation runs beside the old one
CronFire ==
    /\ now < StartTime + MaxTicks
    /\ LET s == IF scans["cron"].pc = "idle" THEN "cron" ELSE "manual"
       IN /\ scans[s].pc = "idle"
          /\ scans' = [scans EXCEPT ![s] = StartScan(routines, now + 1)]
    /\ now' = now + 1
    /\ UNCHANGED <<routines, notifs, nextId, metrics, pushes, reqs, socks, snz,
                   client, lastAdaptive, server>>

\* createAndSendNotification lines 150-162: skip when a recent notification exists
DueCheck(s) ==
    /\ scans[s].pc = "check"
    /\ LET rid == Head(scans[s].due)
       IN scans' = [scans EXCEPT ![s] =
            IF ExistingNotification(notifs, scans[s].snap[rid].user, rid, now)
            THEN NextRoutine(@)
            ELSE [@ EXCEPT !.pc = "create"]]
    /\ UNCHANGED <<now, routines, notifs, nextId, metrics, pushes, reqs, socks,
                   snz, client, lastAdaptive, server>>

\* createAndSendNotification lines 164-196: the pending notification is saved
DueCreate(s) ==
    /\ scans[s].pc = "create"
    /\ nextId <= MaxNotifs
    /\ LET rid == Head(scans[s].due)
           routine == scans[s].snap[rid]
           adj == AdaptiveAdjustment(routine)
       IN notifs' = [notifs EXCEPT ![nextId] =
                        NewNotification(routine.user, rid, routine.title,
                                        scans[s].at + adj, adj)]
    /\ nextId' = nextId + 1
    /\ scans' = [scans EXCEPT ![s].pc = "push", ![s].nid = nextId]
    /\ UNCHANGED <<now, routines, metrics, pushes, reqs, socks, snz, client,
                   lastAdaptive, server>>

\* sendRealTimeNotification lines 213-238, 247-254: the push; when it throws,
\* the catch block tries to store the failure
DuePush(s, pushFails) ==
    /\ scans[s].pc = "push"
    /\ LET rid == Head(scans[s].due)
           n == scans[s].nid
       IN IF pushFails
          THEN /\ ~Locked(n)
               /\ notifs' = [notifs EXCEPT ![n] = MarkFailed(@, @)]
               /\ scans' = [scans EXCEPT ![s] = NextRoutine(@)]
               /\ UNCHANGED pushes
          ELSE /\ pushes' = Append(pushes, PushEvent(n, rid, scans[s].snap))
               /\ scans' = [scans EXCEPT ![s].pc = "mark"]
               /\ UNCHANGED notifs
    /\ UNCHANGED <<now, routines, nextId, metrics, reqs, socks, snz, client,
                   lastAdaptive, server>>

\* sendRealTimeNotification lines 240-245: the delivered state is saved
DueMark(s) ==
    /\ scans[s].pc = "mark"
    /\ LET n == scans[s].nid
       IN /\ ~Locked(n)
          /\ notifs' = [notifs EXCEPT ![n] =
                IF @.status = "none" THEN @
                ELSE Save(@, DeliveredDoc(@, now), DeliveredPaths)]
          /\ reqs' = Invalidate(reqs, n, 0)
    /\ scans' = [scans EXCEPT ![s] = NextRoutine(@)]
    /\ UNCHANGED <<now, routines, nextId, metrics, pushes, socks, snz, client,
                   lastAdaptive, server>>

----------------------------------------------------------------------------
(* Snooze Re-Delivery Scanner *)

\* `caught` tells that the last scan ended in the catch block
IdleSnooze ==
    [pc |-> "idle", todo |-> <<>>, docs |-> [n \in NotifIds |-> NoNotif],
     snap |-> [rid \in RoutineIds |-> NoRoutine], caught |-> FALSE]

\* an error that no catch block takes: the rejection ends the process
SnoozeCaught_Crashes == [IdleSnooze EXCEPT !.pc = "crashed"]

\* checkSnoozedNotifications lines 271-273 (and start() lines 32-36): the
\* error is logged and the scan ends
SnoozeCaught == [IdleSnooze EXCEPT !.caught = TRUE]

\* a find that selects on the status alone
SnoozedDue_AnySnoozed(store, t) ==
    SelectSeq(NotifOrder, LAMBDA n : store[n].status = "snoozed")

\* checkSnoozedNotifications lines 260-263: the snoozed notifications that are due
SnoozedDue(store, t) ==
    SelectSeq(NotifOrder, LAMBDA n :
        /\ store[n].status = "snoozed"
        /\ store[n].snoozedUntil # Null
        /\ store[n].snoozedUntil <= t)

\* the scan ends, or goes on with the next notification of its list
NextSnoozed(scan) ==
    IF Len(scan.todo) > 1
    THEN [scan EXCEPT !.todo = Tail(@), !.pc = "push"]
    ELSE IdleSnooze

\* checkSnoozedNotifications lines 259-265: the find, with routine populated
SnoozeFind ==
    /\ snz.pc = "idle"
    /\ SnoozedDue(notifs, now) # <<>>
    /\ snz' = [pc |-> "push", todo |-> SnoozedDue(notifs, now), docs |-> notifs,
               snap |-> routines, caught |-> FALSE]
    /\ UNCHANGED <<now, routines, notifs, nextId, metrics, pushes, reqs, socks,
                   scans, client, lastAdaptive, server>>

\* sendRealTimeNotification for the head of the list: the push; when it throws
\* the catch block tries to store the failure, and when that save throws too
\* the error leaves the loop of checkSnoozedNotifications
SnoozePush(pushFails) ==
    /\ snz.pc = "push"
    /\ LET n == Head(snz.todo)
           rid == snz.docs[n].routine
           throws == pushFails \/ ~snz.snap[rid].exists
       IN IF throws
          THEN /\ ~Locked(n)
               /\ notifs' = [notifs EXCEPT ![n] = MarkFailed(@, snz.docs[n])]
               /\ snz' = IF MarkFailed(notifs[n], snz.docs[n]) = notifs[n]
                         THEN SnoozeCaught
                         ELSE NextSnoozed(snz)
               /\ UNCHANGED pushes
          ELSE /\ pushes' = Append(pushes, PushEvent(n, rid, snz.snap))
               /\ snz' = [snz EXCEPT !.pc = "mark"]
               /\ UNCHANGED notifs
    /\ UNCHANGED <<now, routines, nextId, metrics, reqs, socks, scans, client,
                   lastAdaptive, server>>

\* sendRealTimeNotification lines 240-245 for a re-delivered notification
SnoozeMark ==
    /\ snz.pc = "mark"
    /\ LET n == Head(snz.todo)
       IN /\ ~Locked(n)
          /\ notifs' = [notifs EXCEPT ![n] =
                IF @.status = "none" THEN @
                ELSE Save(@, DeliveredDoc(snz.docs[n], now), DeliveredPaths)]
          /\ reqs' = Invalidate(reqs, n, 0)
          /\ snz' = IF notifs[n].status = "none"
                    THEN SnoozeCaught
                    ELSE NextSnoozed(snz)
    /\ UNCHANGED <<now, routines, nextId, metrics, pushes, socks, scans, client,
                   lastAdaptive, server>>

----------------------------------------------------------------------------
(* Routine CRUD as far as it touches the scheduler *)

\* scheduleRoutineNotifications: nothing for an inactive routine, else the
\* routine's pending and snoozed notifications are deleted
ScheduleRoutineNotifications(store, routine, rid) ==
    IF ~routine.isActive
    THEN store
    ELSE [n \in NotifIds |->
            IF store[n].routine = rid /\ store[n].status \in {"pending", "snoozed"}
            THEN NoNotif
            ELSE store[n]]

\* an updateMany that matches the cancelled notifications again and counts
\* the call on them
CancelRoutineNotifications_Counting(store, rid) ==
    [n \in NotifIds |->
        IF store[n].routine = rid
           /\ store[n].status \in {"pending", "snoozed", "cancelled"}
        THEN [store[n] EXCEPT !.status = "cancelled", !.deliveryAttempts = @ + 1]
        ELSE store[n]]

\* cancelRoutineNotifications: updateMany to status cancelled (no route calls it)
CancelRoutineNotifications(store, rid) ==
    [n \in NotifIds |->
        IF store[n].routine = rid /\ store[n].status \in {"pending", "snoozed"}
        THEN [store[n] EXCEPT !.status = "cancelled"]
        ELSE store[n]]

\* a store write that touches n waits for the transaction that holds n
NoneLocked(store, after) ==
    \A n \in NotifIds : store[n] # after[n] => ~Locked(n)

\* PATCH /:id/toggle
ToggleRoutine(rid) ==
    /\ routines[rid].exists
    /\ routines' = [routines EXCEPT ![rid].isActive = ~@]
    /\ notifs' = ScheduleRoutineNotifications(notifs, routines'[rid], rid)
    /\ NoneLocked(notifs, notifs')
    /\ UNCHANGED <<now, nextId, metrics, pushes, reqs, socks, scans, snz, client,
                   lastAdaptive, server>>

\* PUT /:id with isActive in the body
UpdateRoutine(rid, isActive) ==
    /\ routines[rid].exists
    /\ routines' = [routines EXCEPT ![rid].isActive = isActive]
    /\ notifs' = ScheduleRoutineNotifications(notifs, routines'[rid], rid)
    /\ NoneLocked(notifs, notifs')
    /\ UNCHANGED <<now, nextId, metrics, pushes, reqs, socks, scans, snz, client,
                   lastAdaptive, server>>

\* a minute passes
Tick ==
    /\ now < StartTime + MaxTicks
    /\ now' = now + 1
    /\ UNCHANGED <<routines, notifs, nextId, metrics, pushes, reqs, socks, scans,
                   snz, client, lastAdaptive, server>>

----------------------------------------------------------------------------
(* The client response handler (notificationResponseHandler.js) *)

\* the user whose browser runs the handler
ClientUser == "A"

IdleClient ==
    [pc |-> "idle", nid |-> 1, r |-> 1, socket |-> FALSE, api |-> FALSE,
     handled |-> 0, pendingResponses |-> <<>>, timers |-> 0,
     retry |-> [pc |-> "idle", i |-> 0, r |-> 1]]

\* handleResponse line 58: snoozeMinutes of the response data
ResponseSnoozeMinutes(action, sm) ==
    IF action = "snoozed" THEN (IF Truthy(sm) THEN sm ELSE <<5>>) ELSE <<>>

\* handleResponse and sendResponseToBackend lines 117-147: the response goes
\* out on the socket when it is connected, and to the REST API in any case;
\* stopAllSoundsCompletely (lines 26-31) has cleared every timeout before
ClientHandleResponse(nid, action, rt, sm, connected, r, s) ==
    /\ client.pc = "idle"
    /\ \E i \in 1..Len(pushes) : pushes[i].nid = nid /\ pushes[i].room = ClientUser
    /\ reqs[r].pc = "idle"
    /\ connected => socks[s].pc = "idle"
    /\ reqs' = [reqs EXCEPT ![r] =
            [@ EXCEPT !.pc = "sent", !.nid = nid, !.user = ClientUser,
                      !.action = action, !.rt = rt,
                      !.sm = BodySnoozeMinutes(ResponseSnoozeMinutes(action, sm))]]
    /\ socks' = IF connected
                THEN [socks EXCEPT ![s] =
                        [@ EXCEPT !.pc = "sent", !.nid = nid, !.user = ClientUser,
                                  !.action = action, !.rt = rt,
                                  !.sm = ResponseSnoozeMinutes(action, sm)]]
                ELSE socks
    /\ client' = [client EXCEPT !.pc = "waiting", !.nid = nid, !.r = r,
                                !.socket = connected, !.api = FALSE,
                                !.timers = 0]
    /\ UNCHANGED <<now, routines, notifs, nextId, metrics, pushes, scans, snz,
                   lastAdaptive, server>>

\* sendResponseToBackend lines 149-177: the REST answer is in; a response that
\* went out on neither channel is kept and one retry is scheduled
ClientReturn ==
    /\ client.pc = "waiting"
    /\ reqs[client.r].pc = "done"
    /\ LET q == reqs[client.r]
           api == q.result = 200
       IN client' = [client EXCEPT
            !.pc = "idle", !.api = api, !.handled = @ + 1,
            !.pendingResponses =
                IF ~client.socket /\ ~api
                THEN Append(@, [nid |-> q.nid, action |-> q.action, rt |-> q.rt,
                                sm |-> q.sm, retryCount |-> 0])
                ELSE @,
            !.timers = IF ~client.socket /\ ~api THEN @ + 1 ELSE @]
    /\ UNCHANGED <<now, routines, notifs, nextId, metrics, pushes, reqs, socks,
                   scans, snz, lastAdaptive, server>>

----------------------------------------------------------------------------
(* Inputs *)

\* what a caller may send as action: the three valid ones, another string,
\* or nothing
Actions == validActions \cup {"ignored", Undefined}

\* response times: a fast, a middling and a slow answer
ResponseTimes == {15, 200}

\* snoozeMinutes: absent, or a number of minutes
SnoozeInputs == {<<>>, <<1>>}

Call(user, nid, action, rt, sm) ==
    [user |-> user, nid |-> nid, action |-> action, rt |-> rt, sm |-> sm]

\* the calls tried on notification 1 of user A: each valid action, fast and
\* slow, an unknown action, another user, an id that does not exist
Calls ==
    {Call("A", 1, "completed", 15, <<>>), Call("A", 1, "completed", 200, <<>>),
     Call("A", 1, "dismissed", 200, <<>>), Call("A", 1, "snoozed", 15, <<>>),
     Call("A", 1, "snoozed", 15, <<1>>), Call("A", 1, "ignored", 15, <<>>),
     Call("B", 1, "completed", 15, <<>>), Call("A", MaxNotifs, "completed", 15, <<>>)}

\* Scenario A: one routine of user A, Monday 09:00, adaptive timing enabled
ScenarioRoutine ==
    Routine("A", TRUE, TRUE, 0, <<Entry(<<"0", "9", ":", "0", "0">>, {1})>>)

----------------------------------------------------------------------------
(* The state after construction: the routine exists, nothing has fired *)

Init ==
    /\ now = StartTime
    /\ routines = [rid \in RoutineIds |-> ScenarioRoutine]
    /\ notifs = [n \in NotifIds |-> NoNotif]
    /\ nextId = 1
    /\ metrics = <<>>
    /\ pushes = <<>>
    /\ reqs = [r \in ReqIds |-> IdleReq]
    /\ socks = [s \in SockIds |-> IdleSock]
    /\ scans = [s \in ScanIds |-> IdleScan]
    /\ snz = IdleSnooze
    /\ client = IdleClient
    /\ lastAdaptive = NoAdaptiveCall
    /\ server = RunningServer

----------------------------------------------------------------------------
(* The Adaptive Timing Updater alone: any sequence of calls *)

\* response times around the two thresholds of the rule table
AdaptiveTimes == {0, 29, 30, 31, 120, 121, 200}

\* updateAdaptiveTiming(routineId, {action, responseTime})
CallUpdateAdaptiveTiming(rid, action, rt) ==
    /\ routines' = UpdateAdaptiveTiming(routines, rid, action, rt, now)
    /\ lastAdaptive' = AdaptiveCall(routines, rid, action, rt)
    /\ UNCHANGED <<now, notifs, nextId, metrics, pushes, reqs, socks, scans, snz,
                   client, server>>

NextAdaptive ==
    \/ Tick
    \/ \E rid \in RoutineIds, action \in validActions, rt \in AdaptiveTimes :
          CallUpdateAdaptiveTiming(rid, action, rt)

SpecAdaptive == Init /\ [][NextAdaptive]_vars

----------------------------------------------------------------------------
(* The REST Response Processor: calls on a notification that has been       *)
(* delivered                                                               *)

\* the state after the due-scan of Monday 09:00 has dispatched notification 1
InitDelivered ==
    /\ now = StartTime
    /\ routines = [rid \in RoutineIds |-> ScenarioRoutine]
    /\ notifs = [n \in NotifIds |->
                    IF n = 1
                    THEN DeliveredDoc(NewNotification("A", "R", FirstTitle, StartTime, 0),
                                      StartTime)
                    ELSE NoNotif]
    /\ nextId = 2
    /\ metrics = <<>>
    /\ pushes = <<[nid |-> 1, room |-> "A", routine |-> "R", active |-> TRUE,
                   title |-> FirstTitle]>>
    /\ reqs = [r \in ReqIds |-> IdleReq]
    /\ socks = [s \in SockIds |-> IdleSock]
    /\ scans = [s \in ScanIds |-> IdleScan]
    /\ snz = IdleSnooze
    /\ client = IdleClient
    /\ lastAdaptive = NoAdaptiveCall
    /\ server = RunningServer

RestSteps(r) ==
    \/ \E storeFails \in BOOLEAN : RestSave(r, storeFails)
    \/ RestEffects(r, FALSE)
    \/ \E storeFails \in BOOLEAN : RestCommit(r, storeFails, FALSE)
    \/ RestCatch(r)

SockSteps(s) ==
    \/ SockSave(s)
    \/ SockEffects(s, FALSE)

NextRespond ==
    \/ \E r \in ReqIds, c \in Calls :
            RestCall(r, c.user, c.nid, c.action, c.rt, c.sm)
    \/ \E r \in ReqIds : RestSteps(r)

SpecRespond == InitDelivered /\ [][NextRespond]_vars

----------------------------------------------------------------------------
(* The scheduler: scans, the clock, routine toggling and the user's answers *)

\* the answers the user gives to a notification: done, or snooze for a minute
Answers ==
    {Call("A", n, "completed", 15, <<>>) : n \in NotifIds}
        \cup {Call("A", n, "snoozed", 15, <<1>>) : n \in NotifIds}

DueSteps(s) ==
    \/ DueCheck(s)
    \/ DueCreate(s)
    \/ \E pushFails \in BOOLEAN : DuePush(s, pushFails)
    \/ DueMark(s)

SnoozeSteps ==
    \/ SnoozeFind
    \/ \E pushFails \in BOOLEAN : SnoozePush(pushFails)
    \/ SnoozeMark

\* the steps of a request the store does not fail
RestStepsNoFault(r) ==
    \/ RestSave(r, FALSE)
    \/ RestEffects(r, FALSE)
    \/ RestCommit(r, FALSE, FALSE)
    \/ RestCatch(r)

\* the user answers once in the run
OneAnswer(r, c) ==
    /\ \A p \in ReqIds : reqs[p].pc = "idle"
    /\ RestCall(r, c.user, c.nid, c.action, c.rt, c.sm)

NextSched ==
    \/ CronTick
    \/ TriggerSchedulerCheck
    \/ \E s \in ScanIds : DueSteps(s)
    \/ SnoozeSteps
    \/ \E rid \in RoutineIds : ToggleRoutine(rid)
    \/ \E rid \in RoutineIds, isActive \in BOOLEAN : UpdateRoutine(rid, isActive)
    \/ \E r \in ReqIds, c \in Answers : OneAnswer(r, c)
    \/ \E r \in ReqIds : RestStepsNoFault(r)

\* the minute before the routine's first fire
InitSched ==
    /\ now = StartTime - 1
    /\ routines = [rid \in RoutineIds |-> ScenarioRoutine]
    /\ notifs = [n \in NotifIds |-> NoNotif]
    /\ nextId = 1
    /\ metrics = <<>>
    /\ pushes = <<>>
    /\ reqs = [r \in ReqIds |-> IdleReq]
    /\ socks = [s \in SockIds |-> IdleSock]
    /\ scans = [s \in ScanIds |-> IdleScan]
    /\ snz = IdleSnooze
    /\ client = IdleClient
    /\ lastAdaptive = NoAdaptiveCall
    /\ server = RunningServer

SpecSched == InitSched /\ [][NextSched]_vars

----------------------------------------------------------------------------
(* Properties of the Response Processor *)

Terminal == {"completed", "dismissed", "cancelled", "failed"}

\* a finished call of the owner with a valid action on an existing notification
OwnerCall(r) ==
    /\ reqs[r].pc = "done"
    /\ reqs[r].seen # "none"

\* C1: of two owner calls on one notification that overlap and meet no store
\* error, exactly one answers success (200) and the other Conflict (409), and
\* the stored status and userResponse are the winner's.
OneWinnerOneConflict ==
    \A r1, r2 \in ReqIds :
        (/\ r1 # r2
         /\ OwnerCall(r1) /\ OwnerCall(r2)
         /\ reqs[r1].nid = reqs[r2].nid
         /\ reqs[r2].overlap
         /\ ~reqs[r1].fault /\ ~reqs[r2].fault)
        => \E w, l \in {r1, r2} :
              /\ reqs[w].result = 200
              /\ reqs[l].result = 409
              /\ notifs[reqs[w].nid].status = reqs[w].action
              /\ notifs[reqs[w].nid].respAction = reqs[w].action
              /\ notifs[reqs[w].nid].respTime = reqs[w].rt

\* C2: an owner call that finds the notification completed, dismissed,
\* cancelled or failed, and meets no store error, answers Conflict (409) and
\* leaves the stored status as it found it.
TerminalAnswersConflict ==
    \A r \in ReqIds :
        (OwnerCall(r) /\ reqs[r].seen \in Terminal /\ ~reqs[r].fault)
        => /\ reqs[r].result = 409
           /\ notifs[reqs[r].nid].status = reqs[r].seen

----------------------------------------------------------------------------
(* Properties of the Adaptive Timing Updater *)

\* C5: starting from offset 0, after any sequence of updateAdaptiveTiming
\* calls the stored offset of every routine is within [-15, +15].
OffsetClamp ==
    \A rid \in RoutineIds :
        /\ routines[rid].adjustment >= 0 - 15
        /\ routines[rid].adjustment <= 15

\* C5, witness: an update has been applied and the offset sits at +15
OffsetAtCeiling ==
    /\ lastAdaptive.applied
    /\ lastAdaptive.action = "dismissed"
    /\ routines[lastAdaptive.routine].adjustment = 15

\* the rule table of the specification: the step d of a response
RuleStep(action, responseTime) ==
    CASE action = "completed" /\ responseTime < 30 -> 0 - 1
      [] action = "completed" /\ responseTime > 120 -> 2
      [] action = "dismissed" -> 5
      [] action = "snoozed" -> 3
      [] OTHER -> 0

\* clamp(x, -15, +15)
Clamp15(x) == Max(0 - 15, Min(15, x))

\* C6: every applied update stores clamp(o + d, -15, +15), o the offset before
\* the call and d the step of the rule table.
StoresClampedStep ==
    lastAdaptive.applied =>
        routines[lastAdaptive.routine].adjustment =
            Clamp15(lastAdaptive.before
                      + RuleStep(lastAdaptive.action, lastAdaptive.responseTime))

----------------------------------------------------------------------------
(* Scans that follow one another, and the client *)

\* POST /trigger-scheduler-check once the minute's cron scan has ended
SequentialCheck ==
    /\ scans["cron"].pc = "idle"
    /\ TriggerSchedulerCheck

NextDedup ==
    \/ CronTick
    \/ SequentialCheck
    \/ \E s \in ScanIds : DueSteps(s)
    \/ \E r \in ReqIds, c \in Answers : OneAnswer(r, c)
    \/ \E r \in ReqIds : RestStepsNoFault(r)

SpecDedup == InitSched /\ [][NextDedup]_vars

\* the user answers the notification on the screen through the handler
ClientAnswers ==
    \E action \in validActions, rt \in ResponseTimes, sm \in SnoozeInputs,
       connected \in BOOLEAN, r \in ReqIds, s \in SockIds :
        /\ \A p \in ReqIds : p < r => reqs[p].pc # "idle"
        /\ ClientHandleResponse(1, action, rt, sm, connected, r, s)

NextClient ==
    \/ ClientAnswers
    \/ ClientReturn
    \/ \E r \in ReqIds : RestRespond(r)
    \/ \E r \in ReqIds : RestStepsNoFault(r)
    \/ \E s \in SockIds : SockRespond(s)
    \/ \E s \in SockIds : SockSteps(s)

SpecClient == InitDelivered /\ [][NextClient]_vars

----------------------------------------------------------------------------
(* Properties of the Scheduler *)

\* the notifications that notification n's routine got for the same fire time
SameFire(n) ==
    {m \in NotifIds :
        /\ notifs[m].status # "none"
        /\ notifs[m].routine = notifs[n].routine
        /\ notifs[m].scheduledFor - notifs[m].adaptiveAdjustment
               = notifs[n].scheduledFor - notifs[n].adaptiveAdjustment}

\* C3: scans of the same minute that follow one another leave exactly one
\* notification for the routine and its fire time, whatever the user did with
\* the first one in between
OnePerFire ==
    \A n \in NotifIds : notifs[n].status # "none" => SameFire(n) = {n}

\* the number of 'notification' events pushed for notification n
PushCount(n) == Cardinality({i \in DOMAIN pushes : pushes[i].nid = n})

\* a scan has pushed notification n and not yet stored the outcome
MidDispatch(n) ==
    \/ \E s \in ScanIds : scans[s].pc = "mark" /\ scans[s].nid = n
    \/ snz.pc = "mark" /\ Head(snz.todo) = n

\* C10: once a dispatch has stored its outcome, deliveryAttempts of the
\* notification equals the number of pushes made for it
AttemptsCountPushes ==
    \A n \in NotifIds :
        (notifs[n].status # "none" /\ ~MidDispatch(n))
            => notifs[n].deliveryAttempts = PushCount(n)

\* C8: no 'notification' event is pushed for a routine that is inactive at the
\* time of the push
NoPushForInactive ==
    \A i \in DOMAIN pushes : pushes[i].active

\* C8: a snoozed notification has been delivered again while its routine was
\* inactive
InactiveRedelivery ==
    \E i, j \in DOMAIN pushes :
        i < j /\ pushes[i].nid = pushes[j].nid /\ ~pushes[j].active

\* C7: the step that deactivates a routine sets each pending and each snoozed
\* notification of the routine to cancelled
DeactivationCancels ==
    [][\A rid \in RoutineIds :
          (routines[rid].isActive /\ ~routines'[rid].isActive)
              => \A n \in NotifIds :
                    (notifs[n].routine = rid
                        /\ notifs[n].status \in {"pending", "snoozed"})
                        => notifs'[n].status = "cancelled"]_vars

----------------------------------------------------------------------------
(* Properties of the Client Response Handler *)

\* no handler of a response is still running
Quiet ==
    /\ \A r \in ReqIds : reqs[r].pc \in {"idle", "done"}
    /\ \A s \in SockIds : socks[s].pc \in {"idle", "done"}

\* C4: one answer through the client response handler gives the metrics sink
\* one event and moves the routine's offset by one step of the rule table
AppliedOnce ==
    (client.handled = 1 /\ client.pc = "idle" /\ Quiet)
        => /\ Len(metrics) = 1
           /\ routines["R"].adjustment
                  = NewAdjustment(0, reqs[client.r].action, reqs[client.r].rt)

----------------------------------------------------------------------------
(* Properties of the Delivery Dispatcher *)

\* scan s has tried to push its notification and the push has thrown
PushThrew(s) ==
    /\ scans[s].pc = "push"
    /\ scans'[s] # scans[s]
    /\ pushes' = pushes

\* C11: the step in which the push of a dispatch throws stores the notification
\* with status failed and deliveryAttempts one higher
PushFailureStored ==
    [][\A s \in ScanIds :
          PushThrew(s) =>
              /\ notifs'[scans[s].nid].status = "failed"
              /\ notifs'[scans[s].nid].deliveryAttempts
                     = notifs[scans[s].nid].deliveryAttempts + 1]_vars

\* sendRealTimeNotification line 231: the event emitted to the owner's room
RoomEmit(e) ==
    [event |-> "notification", id |-> e.nid, routineId |-> e.routine,
     owner |-> e.room]

\* sendRealTimeNotification lines 234-238: the same payload emitted to all
BroadcastEmit(e) ==
    [event |-> "notification-broadcast", id |-> e.nid, routineId |-> e.routine,
     owner |-> e.room]

\* io.on('connection') line 581 and the two emits: what the connected sessions
\* of user u have received, a session being in the room of its own user only
Receives(u) ==
    {RoomEmit(pushes[i]) : i \in {j \in DOMAIN pushes : pushes[j].room = u}}
        \cup {BroadcastEmit(pushes[i]) : i \in DOMAIN pushes}

\* C12: the sessions of a user receive the payload of no notification that
\* belongs to another user
OnlyOwnerReceives ==
    \A u \in Users : \A e \in Receives(u) : e.owner = u

----------------------------------------------------------------------------
(* Snooze and re-delivery *)

\* a minute passes while a snooze runs out
WaitMinute ==
    /\ now < StartTime + MaxWait
    /\ now' = now + 1
    /\ UNCHANGED <<routines, notifs, nextId, metrics, pushes, reqs, socks, scans,
                   snz, client, lastAdaptive, server>>

\* the owner snoozes the notification on the screen, for the default time, for
\* one minute or for two
SnoozeCalls ==
    {Call("A", 1, "snoozed", 15, sm) : sm \in {<<>>, <<1>>, <<2>>}}

\* the owner answers again only when the last answer has been returned
NextAnswer(r, c) ==
    /\ ~InProgress(c.nid)
    /\ RestCall(r, c.user, c.nid, c.action, c.rt, c.sm)

NextSnooze ==
    \/ WaitMinute
    \/ \E r \in ReqIds, c \in SnoozeCalls : NextAnswer(r, c)
    \/ \E r \in ReqIds : RestStepsNoFault(r)
    \/ SnoozeSteps

SpecSnooze == InitDelivered /\ [][NextSnooze]_vars

\* the route computes the snooze of request r in this step
SnoozeComputed(r) ==
    /\ reqs[r].pc = "found" /\ reqs'[r].pc = "written"
    /\ reqs[r].action = "snoozed"

\* the route commits the snooze of request r in this step
SnoozeCommitted(r) ==
    /\ reqs[r].pc = "effects" /\ reqs'[r].pc = "done"
    /\ reqs'[r].result = 200
    /\ reqs[r].action = "snoozed"

\* C13: a snooze response stores status snoozed and snoozedUntil = now + m
\* minutes (m = 5 when absent); a snooze scan picks up exactly the snoozed
\* notifications whose snoozedUntil has come, pushes nothing else, and sets
\* what it has pushed to delivered
SnoozeRoundTrip ==
    [][/\ \A r \in ReqIds :
            SnoozeComputed(r) =>
                /\ reqs'[r].doc.status = "snoozed"
                /\ reqs'[r].doc.snoozedUntil = now + reqs[r].sm
       /\ \A r \in ReqIds :
            SnoozeCommitted(r) =>
                /\ notifs'[reqs[r].nid].status = "snoozed"
                /\ notifs'[reqs[r].nid].snoozedUntil = reqs[r].doc.snoozedUntil
       /\ (snz.pc = "idle" /\ snz'.pc = "push") =>
            \A n \in NotifIds :
                (\E i \in DOMAIN snz'.todo : snz'.todo[i] = n)
                    <=> (notifs[n].status = "snoozed"
                            /\ notifs[n].snoozedUntil <= now)
       /\ (snz.pc = "idle" /\ snz'.pc = "idle") => pushes' = pushes
       /\ (snz.pc = "push" /\ pushes' # pushes) =>
            /\ Len(pushes') = Len(pushes) + 1
            /\ pushes'[Len(pushes')].nid = Head(snz.todo)
       /\ (snz.pc = "mark" /\ snz' # snz
              /\ notifs[Head(snz.todo)].status # "none") =>
            /\ notifs'[Head(snz.todo)].status = "delivered"
            /\ notifs'[Head(snz.todo)].deliveredAt = now]_vars

\* C13, witness: a snooze without minutes has run its five minutes and the
\* snooze scan has delivered the notification a second time
DefaultSnoozeRedelivered ==
    /\ notifs[1].status = "delivered"
    /\ notifs[1].respAction = "snoozed"
    /\ notifs[1].snoozedUntil = StartTime + 5
    /\ notifs[1].deliveredAt >= notifs[1].snoozedUntil
    /\ PushCount(1) = 2

----------------------------------------------------------------------------
(* The due-routine matcher and the notification factory on any routine *)

\* the times of day and the weekday lists a schedule entry may hold: the
\* minute of the scan and the next one, Mondays, Tuesdays or both
EntryTimes == {CurrentTime(StartTime), CurrentTime(StartTime + 1)}
EntryDays == {{GetDay(StartTime)}, {GetDay(StartTime) + 1},
              {GetDay(StartTime), GetDay(StartTime) + 1}}

\* the schedules of one to MaxEntries entries
Schedules ==
    UNION {[1..k -> {Entry(time, days) : time \in EntryTimes, days \in EntryDays}]
              : k \in 1..MaxEntries}

\* the offsets a routine may have stored
Offsets == {0 - 2, 0, 3}

\* the store holds one routine of user A, with any schedule, active or not,
\* adaptive timing on or off, and any offset
InitRoutine ==
    /\ now = StartTime
    /\ routines \in {[rid \in RoutineIds |-> Routine("A", active, enabled, adj, sch)]
                        : active \in BOOLEAN, enabled \in BOOLEAN,
                          adj \in Offsets, sch \in Schedules}
    /\ notifs = [n \in NotifIds |-> NoNotif]
    /\ nextId = 1
    /\ metrics = <<>>
    /\ pushes = <<>>
    /\ reqs = [r \in ReqIds |-> IdleReq]
    /\ socks = [s \in SockIds |-> IdleSock]
    /\ scans = [s \in ScanIds |-> IdleScan]
    /\ snz = IdleSnooze
    /\ client = IdleClient
    /\ lastAdaptive = NoAdaptiveCall
    /\ server = RunningServer

NextScan ==
    \/ Tick
    \/ TriggerSchedulerCheck
    \/ \E s \in ScanIds : DueSteps(s)

SpecScan == InitRoutine /\ [][NextScan]_vars

\* the routine is active and one entry of its schedule holds both the HH:MM
\* of time t and the weekday of t
SingleEntryMatch(routine, t) ==
    /\ routine.exists
    /\ routine.isActive
    /\ \E i \in 1..Len(routine.schedule) :
          /\ routine.schedule[i].time = CurrentTime(t)
          /\ GetDay(t) \in routine.schedule[i].days

\* C14: the matcher returns exactly the active routines of which one single
\* schedule entry matches the time and the weekday of the scan
MatcherExact ==
    /\ \A rid \in RoutineIds :
          SingleEntryMatch(routines[rid], now) => IsDue(routines[rid], now)
    /\ \A s \in ScanIds :
          scans[s].pc = "check" =>
              SingleEntryMatch(scans[s].snap[Head(scans[s].due)], scans[s].at)

\* the offset of the routine the factory has to apply
OffsetToApply(routine) == IF routine.enabled THEN routine.adjustment ELSE 0

\* C15: the step in which the factory saves the notification of a due routine
\* stores a new document with status pending, scheduledFor = T + offset when
\* adaptive timing is enabled and T otherwise, and the applied offset as
\* metadata.adaptiveAdjustment
FactoryPersists ==
    [][\A s \in ScanIds :
          (scans[s].pc = "create" /\ scans'[s].pc = "push") =>
              LET routine == scans[s].snap[Head(scans[s].due)]
                  n == scans'[s].nid
              IN /\ notifs[n].status = "none"
                 /\ notifs'[n].status = "pending"
                 /\ notifs'[n].user = routine.user
                 /\ notifs'[n].routine = Head(scans[s].due)
                 /\ notifs'[n].scheduledFor = scans[s].at + OffsetToApply(routine)
                 /\ notifs'[n].adaptiveAdjustment = OffsetToApply(routine)]_vars

\* C15, witness: a pending notification has been stored three minutes after
\* the fire time of Monday 09:00, for a routine with offset 3
PendingWithOffset ==
    \E n \in NotifIds :
        /\ notifs[n].status = "pending"
        /\ notifs[n].adaptiveAdjustment = 3
        /\ notifs[n].scheduledFor = StartTime + 3
        /\ routines[notifs[n].routine].enabled

----------------------------------------------------------------------------
(* The response entry points, one call at a time, with failing side effects *)

\* the calls tried on notification 1 of user A: valid actions, an unknown
\* action, no action, another user, an id that does not exist
EntryCalls ==
    {Call("A", 1, "completed", 15, <<>>), Call("A", 1, "snoozed", 15, <<>>),
     Call("A", 1, "ignored", 15, <<>>), Call("A", 1, Undefined, 15, <<>>),
     Call("B", 1, "completed", 15, <<>>), Call("A", MaxNotifs, "completed", 15, <<>>)}

\* a call on the REST route when no other call is running
EntryRest(r, c) ==
    /\ Quiet
    /\ RestCall(r, c.user, c.nid, c.action, c.rt, c.sm)

\* an event on the socket when no other call is running
EntrySock(s, c) ==
    /\ Quiet
    /\ SockEmit(s, c.user, c.nid, c.action, c.rt, c.sm)

\* the steps of a request: the store, the metrics update and the emit may fail
RestStepsAnyFault(r) ==
    \/ \E storeFails \in BOOLEAN : RestSave(r, storeFails)
    \/ \E metricsFail \in BOOLEAN : RestEffects(r, metricsFail)
    \/ \E storeFails, syncFails \in BOOLEAN : RestCommit(r, storeFails, syncFails)
    \/ RestCatch(r)

\* the steps of a socket handler: the metrics update may fail
SockStepsAnyFault(s) ==
    \/ SockSave(s)
    \/ \E metricsFail \in BOOLEAN : SockEffects(s, metricsFail)

NextEntry ==
    \/ \E r \in ReqIds, c \in EntryCalls : EntryRest(r, c)
    \/ \E s \in SockIds, c \in EntryCalls : EntrySock(s, c)
    \/ \E r \in ReqIds : RestStepsAnyFault(r)
    \/ \E s \in SockIds : SockStepsAnyFault(s)

SpecEntry == InitDelivered /\ [][NextEntry]_vars

\* C16: no step of a call whose action is not completed, snoozed or dismissed
\* changes a notification, the metrics or a routine, and the call ends
\* rejected, on the REST route and on the socket
InvalidActionRejected ==
    [][/\ \A r \in ReqIds :
            (reqs'[r] # reqs[r] /\ reqs'[r].action \notin validActions) =>
                /\ notifs' = notifs /\ metrics' = metrics /\ routines' = routines
                /\ reqs'[r].pc = "done" => reqs'[r].result \in {400, 404}
       /\ \A s \in SockIds :
            (socks'[s] # socks[s] /\ socks'[s].action \notin validActions) =>
                /\ notifs' = notifs /\ metrics' = metrics /\ routines' = routines
                /\ socks'[s].pc = "done" => socks'[s].result # "ok"]_vars

\* user u does not own a notification with id n: it is another user's, or
\* there is none
NotOwn(u, n) == notifs[n].status = "none" \/ notifs[n].user # u

\* C17: a call by a user who does not own the notification is answered
\* NotFound, the same as a call on an id that does not exist, on the REST
\* route and on the socket
NonOwnerSeesNotFound ==
    /\ \A r \in ReqIds :
          (reqs[r].pc = "done" /\ NotOwn(reqs[r].user, reqs[r].nid))
              => reqs[r].result = 404
    /\ \A s \in SockIds :
          (socks[s].pc = "done" /\ NotOwn(socks[s].user, socks[s].nid))
              => socks[s].result = "NotFound"

\* C18: a call that has stored its transition tells the caller it succeeded,
\* whether or not the metrics update or the sync push fails: the REST step
\* that commits does not end in the catch block, and a socket handler that
\* has saved ends with success
SideEffectsBestEffort ==
    [][/\ \A r \in ReqIds :
            (reqs[r].pc = "effects" /\ notifs' # notifs) => reqs'[r].pc # "catch"
       /\ \A s \in SockIds :
            (/\ socks[s].pc = "saved" /\ socks'[s].pc = "done"
             /\ socks[s].action \in validActions)
                => socks'[s].result = "ok"]_vars

----------------------------------------------------------------------------
(* The cron task with scans that outlast their minute *)

\* the minute before Monday 09:00, with an active routine of any schedule
InitBefore ==
    /\ now = StartTime - 1
    /\ routines \in {[rid \in RoutineIds |-> Routine("A", TRUE, enabled, adj, sch)]
                        : enabled \in BOOLEAN, adj \in Offsets, sch \in Schedules}
    /\ notifs = [n \in NotifIds |-> NoNotif]
    /\ nextId = 1
    /\ metrics = <<>>
    /\ pushes = <<>>
    /\ reqs = [r \in ReqIds |-> IdleReq]
    /\ socks = [s \in SockIds |-> IdleSock]
    /\ scans = [s \in ScanIds |-> IdleScan]
    /\ snz = IdleSnooze
    /\ client = IdleClient
    /\ lastAdaptive = NoAdaptiveCall
    /\ server = RunningServer

NextOverlap ==
    \/ CronFire
    \/ \E s \in ScanIds : DueSteps(s)

SpecOverlap == InitBefore /\ [][NextOverlap]_vars

\* C19: at most one invocation of the due-routine scan is running at any time
OneScanAtATime ==
    Cardinality({s \in ScanIds : scans[s].pc # "idle"}) <= 1

----------------------------------------------------------------------------
(* Properties of the periodic scheduler *)

----------------------------------------------------------------------------
(* Delivery under fair scheduling of the periodic scans *)

\* the process stops while a scan is between the create and the dispatch,
\* and is started again: the store is kept, the scans in flight are lost
ProcessStop ==
    /\ \E s \in ScanIds : scans[s].pc = "push"
    /\ scans' = [s \in ScanIds |-> IdleScan]
    /\ snz' = IdleSnooze
    /\ UNCHANGED <<now, routines, notifs, nextId, metrics, pushes, reqs, socks,
                   client, lastAdaptive, server>>

NextDeliver ==
    \/ CronTick
    \/ DueSteps("cron")
    \/ ProcessStop

\* the cron task fires every minute, and a scan that has started goes on
FairScans ==
    /\ WF_vars(CronTick)
    /\ WF_vars(DueSteps("cron"))

SpecDeliver == InitBefore /\ [][NextDeliver]_vars /\ FairScans

----------------------------------------------------------------------------
(* The retention sweep *)

\* timestamps: true sets createdAt at the save of createAndSendNotification,
\* in the minute its scheduledTime was read: scheduledFor less the adjustment
CreatedAt(doc) == doc.scheduledFor - doc.adaptiveAdjustment

\* cleanupOldNotifications lines 278-279: thirtyDaysAgo
ThirtyDaysAgo(t) == t - 30 * 1440

\* cleanupOldNotifications lines 281-284: the deleteMany
CleanupOldNotifications(store, t) ==
    [n \in NotifIds |->
        IF /\ store[n].status \in {"completed", "dismissed", "failed"}
           /\ CreatedAt(store[n]) < ThirtyDaysAgo(t)
        THEN NoNotif
        ELSE store[n]]

\* start() lines 39-46: the daily task runs the sweep
CleanupTask ==
    /\ notifs' = CleanupOldNotifications(notifs, now)
    /\ UNCHANGED <<now, routines, nextId, metrics, pushes, reqs, socks, scans,
                   snz, client, lastAdaptive, server>>

\* cancelRoutineNotifications called on a routine
CancelRoutine(rid) ==
    /\ notifs' = CancelRoutineNotifications(notifs, rid)
    /\ UNCHANGED <<now, routines, nextId, metrics, pushes, reqs, socks, scans,
                   snz, client, lastAdaptive, server>>

\* POST /:id/schedule: scheduleRoutineNotifications called on a routine
ScheduleRoutine(rid) ==
    /\ routines[rid].exists
    /\ notifs' = ScheduleRoutineNotifications(notifs, routines[rid], rid)
    /\ UNCHANGED <<now, routines, nextId, metrics, pushes, reqs, socks, scans,
                   snz, client, lastAdaptive, server>>

\* a notification created at time t and brought to a status by the
\* dispatcher and the response route
StoredDoc(status, t) ==
    IF status = "pending" THEN NewNotification("A", "R", FirstTitle, t, 0)
    ELSE IF status = "delivered"
         THEN DeliveredDoc(NewNotification("A", "R", FirstTitle, t, 0), t)
         ELSE RespondMutation(DeliveredDoc(NewNotification("A", "R", FirstTitle, t, 0), t),
                              status, 15, 5, t)

\* the time of the sweep, more than thirty days after the first fire
SweepTime == StartTime + 31 * 1440

\* creation times around the retention horizon
CreationTimes ==
    {ThirtyDaysAgo(SweepTime) - 1, ThirtyDaysAgo(SweepTime), SweepTime - 1}

\* a store of notifications of any status and age, of a routine that is
\* active or not
InitSweep ==
    /\ now = SweepTime
    /\ routines \in {[rid \in RoutineIds |-> [ScenarioRoutine EXCEPT !.isActive = a]]
                        : a \in BOOLEAN}
    /\ notifs \in [NotifIds ->
                     {NoNotif} \cup {StoredDoc(st, t) : st \in StatusEnum,
                                                        t \in CreationTimes}]
    /\ nextId = MaxNotifs + 1
    /\ metrics = <<>>
    /\ pushes = <<>>
    /\ reqs = [r \in ReqIds |-> IdleReq]
    /\ socks = [s \in SockIds |-> IdleSock]
    /\ scans = [s \in ScanIds |-> IdleScan]
    /\ snz = IdleSnooze
    /\ client = IdleClient
    /\ lastAdaptive = NoAdaptiveCall
    /\ server = RunningServer

NextSweep ==
    \/ CleanupTask
    \/ \E rid \in RoutineIds : CancelRoutine(rid)
    \/ \E rid \in RoutineIds : ScheduleRoutine(rid)

SpecSweep == InitSweep /\ [][NextSweep]_vars

\* a notification in a terminal status created before the retention horizon
TerminalOld(doc, t) ==
    doc.status \in Terminal /\ CreatedAt(doc) < ThirtyDaysAgo(t)

\* C22: a sweep deletes only notifications that are terminal and older than
\* thirty days, and after it no such notification remains
SweepExact ==
    [][(notifs' = CleanupOldNotifications(notifs, now) /\ notifs' # notifs)
        => /\ \A n \in NotifIds :
                notifs'[n] # notifs[n] => TerminalOld(notifs[n], now)
           /\ \A n \in NotifIds : ~TerminalOld(notifs'[n], now)]_vars

\* C23: scheduleRoutineNotifications and cancelRoutineNotifications are
\* idempotent: on every store, a second call right after the first leaves the
\* store as the first call left it
Idempotent ==
    \A rid \in RoutineIds :
        /\ ScheduleRoutineNotifications(
              ScheduleRoutineNotifications(notifs, routines[rid], rid),
              routines[rid], rid)
            = ScheduleRoutineNotifications(notifs, routines[rid], rid)
        /\ CancelRoutineNotifications(CancelRoutineNotifications(notifs, rid), rid)
            = CancelRoutineNotifications(notifs, rid)

\* C23, witness: a first call of each has acted on the store (one notification
\* cancelled, none pending or snoozed under an active routine), and a
\* notification the calls do not touch is still there
CalledOnce ==
    /\ \E n \in NotifIds : notifs[n].status = "cancelled"
    /\ \E n \in NotifIds : notifs[n].status \in {"delivered", "completed"}
    /\ \A rid \in RoutineIds :
          /\ routines[rid].isActive
          /\ ScheduleRoutineNotifications(notifs, routines[rid], rid) = notifs

----------------------------------------------------------------------------
(* Snooze requests with any number of minutes *)

\* the snoozeMinutes a caller may send: a negative number, zero, one minute,
\* or none
MinutesSent == {<<0 - 1>>, <<0>>, <<1>>, <<>>}

RangeCalls == {Call("A", 1, "snoozed", 15, sm) : sm \in MinutesSent}

NextRange ==
    \/ \E r \in ReqIds, c \in RangeCalls : NextAnswer(r, c)
    \/ \E r \in ReqIds : RestStepsNoFault(r)
    \/ \E sm \in MinutesSent : LegacySnooze("A", 1, sm)

SpecRange == InitDelivered /\ [][NextRange]_vars

\* C24: a snooze of zero or fewer minutes is answered 400 and every
\* snoozedUntil that is stored is later than the time of the response
SnoozeRangeChecked ==
    [][/\ \A n \in NotifIds :
            notifs'[n].snoozedUntil # notifs[n].snoozedUntil
                => notifs'[n].snoozedUntil > now'
       /\ \A r \in ReqIds :
            (reqs'[r].pc = "done" /\ reqs'[r].action = "snoozed"
                /\ reqs'[r].sm <= 0)
                => reqs'[r].result = 400]_vars

----------------------------------------------------------------------------
(* The nullable timestamps of a notification *)

\* C25: the timestamps agree with the status: snoozed has a snoozedUntil,
\* completed a completedAt, delivered a deliveredAt, and only a completed
\* notification has a completedAt
TimestampsAgree ==
    \A n \in NotifIds :
        /\ notifs[n].status = "snoozed" => notifs[n].snoozedUntil # Null
        /\ notifs[n].status = "completed" => notifs[n].completedAt # Null
        /\ notifs[n].status = "delivered" => notifs[n].deliveredAt # Null
        /\ notifs[n].completedAt # Null => notifs[n].status = "completed"

----------------------------------------------------------------------------
(* Routine edits and the notifications already created *)

\* PUT /:id with a new title (description, sound, volume) in the body, and
\* neither schedule nor isActive: nothing is rescheduled
EditRoutine(rid, title) ==
    /\ routines[rid].exists
    /\ routines' = [routines EXCEPT ![rid].title = title]
    /\ UNCHANGED <<now, notifs, nextId, metrics, pushes, reqs, socks, scans, snz,
                   client, lastAdaptive, server>>

NextEdit ==
    \/ WaitMinute
    \/ \E rid \in RoutineIds, title \in Titles : EditRoutine(rid, title)
    \/ \E r \in ReqIds, c \in SnoozeCalls : NextAnswer(r, c)
    \/ \E r \in ReqIds : RestStepsNoFault(r)
    \/ SnoozeSteps

SpecEdit == InitDelivered /\ [][NextEdit]_vars

\* C26: an edit of the routine changes no stored notification, and every
\* payload pushed for a notification carries the title stored with it
EditNotRetroactive ==
    [][/\ \A n \in NotifIds :
            (notifs[n].status # "none" /\ notifs'[n].status # "none")
                => notifs'[n].title = notifs[n].title
       /\ \A i \in DOMAIN pushes' :
            notifs'[pushes'[i].nid].status # "none"
                => pushes'[i].title = notifs'[pushes'[i].nid].title]_vars

----------------------------------------------------------------------------
(* Routines with adaptive timing switched off *)

\* Monday 09:00: the routine of Scenario A with adaptive timing on or off and
\* an offset stored from earlier responses
InitOffset ==
    /\ now = StartTime
    /\ routines \in {[rid \in RoutineIds |->
                        [ScenarioRoutine EXCEPT !.enabled = e, !.adjustment = adj]]
                        : e \in BOOLEAN, adj \in Offsets}
    /\ notifs = [n \in NotifIds |-> NoNotif]
    /\ nextId = 1
    /\ metrics = <<>>
    /\ pushes = <<>>
    /\ reqs = [r \in ReqIds |-> IdleReq]
    /\ socks = [s \in SockIds |-> IdleSock]
    /\ scans = [s \in ScanIds |-> IdleScan]
    /\ snz = IdleSnooze
    /\ client = IdleClient
    /\ lastAdaptive = NoAdaptiveCall
    /\ server = RunningServer

\* the owner's answers to the first notification, on either path
OwnerCalls ==
    {Call("A", 1, "completed", 200, <<>>), Call("A", 1, "dismissed", 15, <<>>),
     Call("A", 1, "snoozed", 15, <<1>>)}

\* the owner answers a notification that exists, once on the REST route and
\* once on the socket
NextOffset ==
    \/ TriggerSchedulerCheck
    \/ DueSteps("manual")
    \/ \E c \in OwnerCalls : notifs[c.nid].status # "none" /\ EntryRest(1, c)
    \/ \E c \in OwnerCalls : notifs[c.nid].status # "none" /\ EntrySock(1, c)
    \/ \E r \in ReqIds : RestStepsNoFault(r)
    \/ \E s \in SockIds : SockSteps(s)

SpecOffset == InitOffset /\ [][NextOffset]_vars

\* C27: while adaptive timing is switched off, no step changes the routine's
\* offset or lastAdjustment, and the notification the due-scan creates is
\* scheduled for the scan's own time with no adjustment
DisabledIsFrozen ==
    [][\A rid \in RoutineIds :
         ~routines[rid].enabled
            => /\ routines'[rid].adjustment = routines[rid].adjustment
               /\ routines'[rid].lastAdjustment = routines[rid].lastAdjustment
               /\ \A n \in NotifIds :
                    (notifs[n].status = "none" /\ notifs'[n].status = "pending"
                        /\ notifs'[n].routine = rid)
                        => /\ notifs'[n].adaptiveAdjustment = 0
                           /\ \E s \in ScanIds :
                                /\ scans[s].pc = "create"
                                /\ notifs'[n].scheduledFor = scans[s].at]_vars

\* C27, witness: the routine has adaptive timing off and a stored offset of 3;
\* its notification was created for 09:00 sharp, and the owner has answered it
\* on the REST route and on the socket
DisabledAnsweredTwice ==
    /\ ~routines["R"].enabled
    /\ routines["R"].adjustment = 3
    /\ notifs[1].scheduledFor = StartTime
    /\ \E r \in ReqIds : reqs[r].pc = "done" /\ reqs[r].result = 200
    /\ \E s \in SockIds : socks[s].pc = "done" /\ socks[s].result = "ok"

----------------------------------------------------------------------------
(* Duplicate suppression under every adaptive offset *)

\* the offsets the claim speaks of: updateAdaptiveTiming keeps the stored
\* adjustment between -10 and 15
AllOffsets == (0 - 15)..15

\* Monday 09:00: the routine of Scenario A with any stored offset
InitWindow ==
    /\ now = StartTime
    /\ routines \in {[rid \in RoutineIds |-> [ScenarioRoutine EXCEPT !.adjustment = adj]]
                        : adj \in AllOffsets}
    /\ notifs = [n \in NotifIds |-> NoNotif]
    /\ nextId = 1
    /\ metrics = <<>>
    /\ pushes = <<>>
    /\ reqs = [r \in ReqIds |-> IdleReq]
    /\ socks = [s \in SockIds |-> IdleSock]
    /\ scans = [s \in ScanIds |-> IdleScan]
    /\ snz = IdleSnooze
    /\ client = IdleClient
    /\ lastAdaptive = NoAdaptiveCall
    /\ server = RunningServer

\* scans of the same minute, one after the other
NextWindow ==
    \/ TriggerSchedulerCheck
    \/ DueSteps("manual")

SpecWindow == InitWindow /\ [][NextWindow]_vars

\* C28: whatever the routine's offset, the scans of one minute create at most
\* one notification for the routine
OnePerMinute ==
    \A rid \in RoutineIds :
        Cardinality({n \in NotifIds : /\ notifs[n].status # "none"
                                      /\ notifs[n].routine = rid}) <= 1

----------------------------------------------------------------------------
(* Responses to different notifications at the same time *)

\* a week after the first fire: the notifications of both Mondays have been
\* delivered to user A and neither has been answered
InitTwoDelivered ==
    /\ now = StartTime + 7 * 1440
    /\ routines = [rid \in RoutineIds |-> ScenarioRoutine]
    /\ notifs = [n \in NotifIds |->
                    IF n <= 2
                    THEN DeliveredDoc(
                            NewNotification("A", "R", FirstTitle,
                                            StartTime + (n - 1) * 7 * 1440, 0),
                            StartTime + (n - 1) * 7 * 1440)
                    ELSE NoNotif]
    /\ nextId = 3
    /\ metrics = <<>>
    /\ pushes = <<[nid |-> 1, room |-> "A", routine |-> "R", active |-> TRUE,
                   title |-> FirstTitle],
                  [nid |-> 2, room |-> "A", routine |-> "R", active |-> TRUE,
                   title |-> FirstTitle]>>
    /\ reqs = [r \in ReqIds |-> IdleReq]
    /\ socks = [s \in SockIds |-> IdleSock]
    /\ scans = [s \in ScanIds |-> IdleScan]
    /\ snz = IdleSnooze
    /\ client = IdleClient
    /\ lastAdaptive = NoAdaptiveCall
    /\ server = RunningServer

\* the owner's answers to either notification; calls may run side by side
ParallelCalls ==
    {Call("A", n, a, 15, <<>>) : n \in {1, 2}, a \in {"completed", "dismissed"}}

NextParallel ==
    \/ \E r \in ReqIds, c \in ParallelCalls :
            RestCall(r, c.user, c.nid, c.action, c.rt, c.sm)
    \/ \E r \in ReqIds : RestStepsNoFault(r)

SpecParallel == InitTwoDelivered /\ [][NextParallel]_vars

\* C29: a response call that is not answered 200 has met another call on its
\* own notification: calls on other notifications never make it fail
NoCrossBlocking ==
    \A r \in ReqIds :
        (reqs[r].pc \in {"catch", "done"} /\ reqs[r].result # 200)
            => \E p \in ReqIds \ {r} :
                    reqs[p].pc # "idle" /\ reqs[p].nid = reqs[r].nid

\* C29, witness: the first call holds its transaction on one notification,
\* and the call that arrived after it on the other has been answered 200
AnsweredBesideOpenCall ==
    /\ reqs[1].pc \in {"written", "effects"}
    /\ reqs[2].pc = "done"
    /\ reqs[2].result = 200
    /\ reqs[2].nid # reqs[1].nid

----------------------------------------------------------------------------
(* The scheduler status on the REST route and on the socket *)

\* mongoose.connection.once('open'): the scheduler is started, the server
\* listens
ServerOpen ==
    /\ server.phase = "connecting"
    /\ server' = [server EXCEPT !.phase = "listening",
                                !.sched = StartScheduler(@)]
    /\ UNCHANGED <<now, routines, notifs, nextId, metrics, pushes, reqs, socks,
                   scans, snz, client, lastAdaptive>>

\* gracefulShutdown: the scheduler is stopped if it runs, sockets and the
\* HTTP server are closed
GracefulShutdown ==
    /\ server.phase = "listening"
    /\ server' = [server EXCEPT !.phase = "closing",
                                !.sched = IF @.isRunning THEN StopScheduler(@)
                                          ELSE @]
    /\ UNCHANGED <<now, routines, notifs, nextId, metrics, pushes, reqs, socks,
                   scans, snz, client, lastAdaptive>>

\* GET /scheduler-status: the route builds a scheduler of its own and
\* returns its status
RestSchedulerStatus ==
    /\ server.phase = "listening"
    /\ server' = [server EXCEPT !.reply =
            [route |-> "rest",
             isRunning |-> GetStatus(NewScheduler).isRunning,
             activeCronJobs |-> GetStatus(NewScheduler).activeCronJobs]]
    /\ UNCHANGED <<now, routines, notifs, nextId, metrics, pushes, reqs, socks,
                   scans, snz, client, lastAdaptive>>

\* socket 'get-scheduler-status': the status of the server's scheduler
SocketSchedulerStatus ==
    /\ server.phase = "listening"
    /\ server' = [server EXCEPT !.reply =
            [route |-> "socket",
             isRunning |-> GetStatus(server.sched).isRunning,
             activeCronJobs |-> GetStatus(server.sched).activeCronJobs]]
    /\ UNCHANGED <<now, routines, notifs, nextId, metrics, pushes, reqs, socks,
                   scans, snz, client, lastAdaptive>>

\* a minute begins; the due scan runs when its cron task is registered
RegisteredTick ==
    /\ server.sched.tasks > 0
    /\ CronTick

\* the process has just been started, a minute before Monday 09:00
InitServer ==
    /\ now = StartTime - 1
    /\ routines \in {[rid \in RoutineIds |-> Routine("A", TRUE, enabled, adj, sch)]
                        : enabled \in BOOLEAN, adj \in Offsets, sch \in Schedules}
    /\ notifs = [n \in NotifIds |-> NoNotif]
    /\ nextId = 1
    /\ metrics = <<>>
    /\ pushes = <<>>
    /\ reqs = [r \in ReqIds |-> IdleReq]
    /\ socks = [s \in SockIds |-> IdleSock]
    /\ scans = [s \in ScanIds |-> IdleScan]
    /\ snz = IdleSnooze
    /\ client = IdleClient
    /\ lastAdaptive = NoAdaptiveCall
    /\ server = ConnectingServer

NextServer ==
    \/ ServerOpen
    \/ GracefulShutdown
    \/ RestSchedulerStatus
    \/ SocketSchedulerStatus
    \/ RegisteredTick
    \/ DueSteps("cron")

SpecServer == InitServer /\ [][NextServer]_vars

\* C30: a status reply, on either route, tells whether the server's scheduler
\* is running and how many cron tasks it has registered
StatusTruthful ==
    [][server'.reply # server.reply
        => /\ server'.reply.isRunning = server.sched.isRunning
           /\ server'.reply.activeCronJobs = server.sched.tasks]_vars

----------------------------------------------------------------------------
(* The dispatcher's store update and the user's response *)

\* C31: the dispatcher never writes delivered over a stored user response:
\* a step that sets a notification to delivered finds it pending, or snoozed
\* with its snooze run out
ResponseKept ==
    [][\A n \in NotifIds :
         (notifs'[n].status = "delivered" /\ notifs[n].status # "delivered")
            => \/ notifs[n].status = "pending"
               \/ /\ notifs[n].status = "snoozed"
                  /\ notifs[n].snoozedUntil <= now]_vars

----------------------------------------------------------------------------
(* The cron scan and the manual scan of the same minute, side by side *)

\* the cron task's scan and the scan of /trigger-scheduler-check, their
\* steps interleaved; nobody answers
NextRace ==
    \/ CronTick
    \/ TriggerSchedulerCheck
    \/ \E s \in ScanIds : DueSteps(s)

SpecRace == InitSched /\ [][NextRace]_vars

\* C32: scans that run side by side in one minute leave at most one
\* notification for the routine and that minute
OnePerConcurrentFire ==
    \A n, m \in NotifIds :
        (/\ notifs[n].status # "none"
         /\ notifs[m].status # "none"
         /\ notifs[n].routine = notifs[m].routine
         /\ CreatedAt(notifs[n]) = CreatedAt(notifs[m]))
            => n = m

----------------------------------------------------------------------------
(* The direction of the adaptive integrator *)

\* C33: an update for dismissed, snoozed, or completed after more than 120
\* seconds never stores an offset smaller than the one it found
PushLaterMonotone ==
    (/\ lastAdaptive.applied
     /\ \/ lastAdaptive.action \in {"dismissed", "snoozed"}
        \/ lastAdaptive.action = "completed" /\ lastAdaptive.responseTime > 120)
        => routines[lastAdaptive.routine].adjustment >= lastAdaptive.before

----------------------------------------------------------------------------
(* The cron tasks after stop() *)

\* C34: never more than one task of each kind is registered, and the cron
\* task runs its scan only while the scheduler is running
StoppedMeansSilent ==
    [][/\ server'.sched.tasks <= 3
       /\ now' # now => server.sched.isRunning]_vars

----------------------------------------------------------------------------
(* One snooze scan over several due notifications *)

\* the snooze scan on a store of notifications of any status and age
NextRedeliver == SnoozeSteps

SpecRedeliver == InitSweep /\ [][NextRedeliver]_vars

\* C35: a snooze scan goes through every notification it has found: it ends
\* only at the last one of its list, whatever happened to those before
ScanReachesAll ==
    [][(snz.pc # "idle" /\ snz'.pc = "idle") => Len(snz.todo) = 1]_vars

----------------------------------------------------------------------------
(* The time strings the Routine schema accepts *)

\* the value of a digit character
DigitOf(c) == CHOOSE d \in 0..9 : Digits[d + 1] = c

IsDigit(c) == \E d \in 0..9 : Digits[d + 1] = c

\* scheduleSchema.time.validate: /^([0-1]?[0-9]|2[0-3]):[0-5][0-9]$/
ScheduleTimeValid(str) ==
    /\ Len(str) \in {4, 5}
    /\ str[Len(str) - 2] = ":"
    /\ IsDigit(str[Len(str) - 1]) /\ DigitOf(str[Len(str) - 1]) <= 5
    /\ IsDigit(str[Len(str)])
    /\ IF Len(str) = 4
       THEN IsDigit(str[1])
       ELSE /\ IsDigit(str[1]) /\ IsDigit(str[2])
            /\ \/ DigitOf(str[1]) <= 1
               \/ DigitOf(str[1]) = 2 /\ DigitOf(str[2]) <= 3

\* the hour and the minute a valid time string names
HourOf(str) ==
    IF Len(str) = 4 THEN DigitOf(str[1])
    ELSE 10 * DigitOf(str[1]) + DigitOf(str[2])

MinuteOf(str) == 10 * DigitOf(str[Len(str) - 1]) + DigitOf(str[Len(str)])

\* time strings a client may put into a schedule entry
TimeStrings ==
    {<<"0", "9", ":", "0", "0">>, <<"9", ":", "0", "0">>,
     <<"0", "9", ":", "0", "1">>, <<"9", ":", "0", "1">>,
     <<"2", "4", ":", "0", "0">>, <<"9", ":", "6", "0">>, <<"0", "9", "0", "0">>}

\* the minute before Monday 09:00: an active routine whose one schedule entry
\* has passed the schema's validator
InitAccepted ==
    /\ now = StartTime - 1
    /\ routines \in {[rid \in RoutineIds |->
                        Routine("A", TRUE, enabled, adj, <<Entry(time, days)>>)]
                        : enabled \in BOOLEAN, adj \in Offsets, days \in EntryDays,
                          time \in {str \in TimeStrings : ScheduleTimeValid(str)}}
    /\ notifs = [n \in NotifIds |-> NoNotif]
    /\ nextId = 1
    /\ metrics = <<>>
    /\ pushes = <<>>
    /\ reqs = [r \in ReqIds |-> IdleReq]
    /\ socks = [s \in SockIds |-> IdleSock]
    /\ scans = [s \in ScanIds |-> IdleScan]
    /\ snz = IdleSnooze
    /\ client = IdleClient
    /\ lastAdaptive = NoAdaptiveCall
    /\ server = RunningServer

NextAccepted ==
    \/ CronTick
    \/ DueSteps("cron")

SpecAccepted == InitAccepted /\ [][NextAccepted]_vars

\* C36: at the hour and minute an accepted schedule entry names, on one of
\* its days, the scan's filter returns the routine
AcceptedEntryIsDue ==
    \A rid \in RoutineIds :
        (/\ routines[rid].exists /\ routines[rid].isActive
         /\ \E i \in 1..Len(routines[rid].schedule) :
              /\ HourOf(routines[rid].schedule[i].time) = GetHours(now)
              /\ MinuteOf(routines[rid].schedule[i].time) = GetMinutes(now)
              /\ GetDay(now) \in routines[rid].schedule[i].days)
            => IsDue(routines[rid], now)

----------------------------------------------------------------------------
(* Metrics and adaptive timing of a call whose commit fails *)

\* C37: while every response call has ended and none has been committed, the
\* metrics hold no record and the routine's offset is the one it started with
EffectsOnlyWhenCommitted ==
    (/\ \A r \in ReqIds : reqs[r].pc \in {"idle", "done"}
     /\ \A r \in ReqIds : reqs[r].pc = "done" => reqs[r].result # 200
     /\ notifs[1].status = "delivered")
        => /\ metrics = <<>>
           /\ \A rid \in RoutineIds :
                routines[rid].adjustment = ScenarioRoutine.adjustment

----------------------------------------------------------------------------
(* A routine with two schedule entries on the same day *)

\* the minute before Monday 09:00: an active routine with one entry at 09:00
\* and a second entry one to MaxTicks minutes later
InitTwoEntries ==
    /\ now = StartTime - 1
    /\ routines \in {[rid \in RoutineIds |->
                        Routine("A", TRUE, enabled, adj,
                                <<Entry(CurrentTime(StartTime), {GetDay(StartTime)}),
                                  Entry(CurrentTime(StartTime + k), {GetDay(StartTime)})>>)]
                        : enabled \in BOOLEAN, adj \in Offsets, k \in 1..MaxTicks}
    /\ notifs = [n \in NotifIds |-> NoNotif]
    /\ nextId = 1
    /\ metrics = <<>>
    /\ pushes = <<>>
    /\ reqs = [r \in ReqIds |-> IdleReq]
    /\ socks = [s \in SockIds |-> IdleSock]
    /\ scans = [s \in ScanIds |-> IdleScan]
    /\ snz = IdleSnooze
    /\ client = IdleClient
    /\ lastAdaptive = NoAdaptiveCall
    /\ server = RunningServer

NextTwoFires ==
    \/ CronTick
    \/ DueSteps("cron")

SpecTwoFires == InitTwoEntries /\ [][NextTwoFires]_vars

\* C38: once the scan of a minute at which the routine is due has returned,
\* a notification created in that minute exists for the routine
EachFireCreates ==
    \A rid \in RoutineIds :
        (/\ now >= StartTime
         /\ scans["cron"].pc = "idle"
         /\ IsDue(routines[rid], now))
            => \E n \in NotifIds : /\ notifs[n].status # "none"
                                   /\ notifs[n].routine = rid
                                   /\ CreatedAt(notifs[n]) = now

----------------------------------------------------------------------------
(* The client response handler: the retry of stored responses *)

\* splice(i, 1)
Splice(seq, i) == SubSeq(seq, 1, i - 1) \o SubSeq(seq, i + 1, Len(seq))

\* line 170 and lines 203-208: the timeout set by sendResponseToBackend fires
\* and retryPendingResponses starts at the last stored response
RetryTimeout ==
    /\ client.timers > 0
    /\ client.retry.pc = "idle"
    /\ client' = [client EXCEPT
            !.timers = @ - 1,
            !.retry = IF Len(client.pendingResponses) = 0 THEN @
                      ELSE [@ EXCEPT !.pc = "loop",
                                     !.i = Len(client.pendingResponses)]]
    /\ UNCHANGED <<now, routines, notifs, nextId, metrics, pushes, reqs, socks,
                   scans, snz, lastAdaptive, server>>

\* lines 208-224: the loop ends below the first entry; an entry that has been
\* retried three times is dropped; any other entry goes to the REST API
RetrySend(r) ==
    /\ client.retry.pc = "loop"
    /\ LET i == client.retry.i
       IN IF i = 0
          THEN /\ client' = [client EXCEPT !.retry.pc = "idle"]
               /\ UNCHANGED reqs
          ELSE IF client.pendingResponses[i].retryCount >= 3
          THEN /\ client' = [client EXCEPT
                                !.pendingResponses = Splice(@, i),
                                !.retry.i = i - 1]
               /\ UNCHANGED reqs
          ELSE /\ reqs[r].pc = "idle"
               /\ \A p \in ReqIds : p < r => reqs[p].pc # "idle"
               /\ reqs' = [reqs EXCEPT ![r] =
                    [@ EXCEPT !.pc = "sent",
                              !.nid = client.pendingResponses[i].nid,
                              !.user = ClientUser,
                              !.action = client.pendingResponses[i].action,
                              !.rt = client.pendingResponses[i].rt,
                              !.sm = client.pendingResponses[i].sm]]
               /\ client' = [client EXCEPT !.retry.pc = "wait", !.retry.r = r]
    /\ UNCHANGED <<now, routines, notifs, nextId, metrics, pushes, socks, scans,
                   snz, lastAdaptive, server>>

\* lines 226-237: the answer of the REST API: the entry is removed when the
\* call succeeded, its retryCount grows by one when it did not
RetryReturn ==
    /\ client.retry.pc = "wait"
    /\ reqs[client.retry.r].pc = "done"
    /\ LET i == client.retry.i
       IN client' = [client EXCEPT
            !.pendingResponses =
                IF reqs[client.retry.r].result = 200
                THEN Splice(@, i)
                ELSE [@ EXCEPT ![i].retryCount = @ + 1],
            !.retry.pc = "loop",
            !.retry.i = i - 1]
    /\ reqs' = [reqs EXCEPT ![client.retry.r] = IdleReq]
    /\ UNCHANGED <<now, routines, notifs, nextId, metrics, pushes, socks, scans,
                   snz, lastAdaptive, server>>

\* the user answers the notification on the screen once
ClientAnswersOnce ==
    /\ client.handled = 0
    /\ ClientAnswers

NextRetry ==
    \/ ClientAnswersOnce
    \/ ClientReturn
    \/ RetryTimeout
    \/ \E r \in ReqIds : RetrySend(r)
    \/ RetryReturn
    \/ \E r \in ReqIds : RestRespond(r)
    \/ \E r \in ReqIds : RestSteps(r)
    \/ \E s \in SockIds : SockRespond(s)
    \/ \E s \in SockIds : SockSteps(s)

\* timeouts fire, the loop of retryPendingResponses goes on, and the server
\* answers every request it has received
FairRetry ==
    /\ WF_vars(ClientReturn)
    /\ WF_vars(RetryTimeout)
    /\ WF_vars(\E r \in ReqIds : RetrySend(r))
    /\ WF_vars(RetryReturn)
    /\ \A r \in ReqIds : WF_vars(RestRespond(r)) /\ WF_vars(RestSteps(r))
    /\ \A s \in SockIds : WF_vars(SockRespond(s)) /\ WF_vars(SockSteps(s))

SpecRetry == InitDelivered /\ [][NextRetry]_vars /\ FairRetry

\* C39: a stored response does not stay stored with fewer than three retries:
\* it is delivered, or its retryCount reaches 3 and it is dropped
PendingDrains ==
    (\E i \in DOMAIN client.pendingResponses :
        client.pendingResponses[i].retryCount < 3)
        ~> (\A i \in DOMAIN client.pendingResponses :
                client.pendingResponses[i].retryCount >= 3)

====
